---- MODULE Spec2Model ----
(***************************************************************************)
(* NewModelToolParser (src/watt.py): extraction of one tool call from the  *)
(* text of an assistant turn, non-streaming (extract_tool_calls) and       *)
(* streaming (extract_tool_calls_streaming).                               *)
(*                                                                         *)
(* A text is a sequence of one-character strings, so that the two regular  *)
(* expressions, str.split/str.strip and json.loads are modelled character  *)
(* by character.  A completion is a sequence of tokens (each a text); the  *)
(* streaming caller delivers whole tokens and passes the accumulated text. *)
(***************************************************************************)
EXTENDS Naturals, Sequences, FiniteSets

VARIABLES
    completion,     \* the tokens the model emits for this turn
    fed,            \* how many of them the streaming caller has delivered
    current_text,   \* the accumulated text of the last streaming call
    delta,          \* what the last streaming call returned
    emitted,        \* how many streaming calls of this turn returned a message
    info,           \* what extract_tool_calls returned on the whole completion
    request         \* the ChatCompletionRequest of the turn

vars == <<completion, fed, current_text, delta, emitted, info, request>>

-----------------------------------------------------------------------------
(* Bounds of the model *)

\* chunks (calls, terminators, plain text) concatenated into one completion
MaxChunks == 2
\* tokens one streaming delta may carry
MaxDelta == 2

-----------------------------------------------------------------------------
(* Marker tokens *)

START_ASSISTANT == <<"<", "|", "s", "t", "a", "r", "t", "_", "h", "e", "a", "d", "e", "r", "_", "i", "d", "|", ">", "a", "s", "s", "i", "s", "t", "a", "n", "t", "<", "|", "e", "n", "d", "_", "h", "e", "a", "d", "e", "r", "_", "i", "d", "|", ">">>
EOT == <<"<", "|", "e", "o", "t", "_", "i", "d", "|", ">">>
EOM == <<"<", "|", "e", "o", "m", "_", "i", "d", "|", ">">>
PYTHON_TAG == <<"<", "|", "p", "y", "t", "h", "o", "n", "_", "t", "a", "g", "|", ">">>

-----------------------------------------------------------------------------
(* Text primitives *)

\* the character at i, or "" outside the text
At(s, i) == IF i >= 1 /\ i <= Len(s) THEN s[i] ELSE ""

\* s[i:j] of Python with 1-based inclusive bounds; empty when j < i
Slice(s, i, j) == IF j < i THEN <<>> ELSE SubSeq(s, i, j)

\* lit occurs in s starting at i
StartsAt(s, i, lit) ==
    /\ i >= 1
    /\ i + Len(lit) - 1 <= Len(s)
    /\ SubSeq(s, i, i + Len(lit) - 1) = lit

\* Python's `lit in s`
Contains(s, lit) == \E i \in 1..(Len(s) + 1) : StartsAt(s, i, lit)

\* the first index >= i where lit starts, 0 when there is none (str.find + 1)
Find(s, i, lit) ==
    IF \E j \in i..Len(s) : StartsAt(s, j, lit)
    THEN CHOOSE j \in i..Len(s) :
             StartsAt(s, j, lit) /\ \A k \in i..(j - 1) : ~StartsAt(s, k, lit)
    ELSE 0

RECURSIVE Flatten(_)
Flatten(toks) == IF toks = <<>> THEN <<>> ELSE Head(toks) \o Flatten(Tail(toks))

\* whitespace of str.strip() and of \s
Whitespace == {" ", "\t", "\n", "\r", "\f"}
\* \w
WordChars == {"a", "b", "c", "d", "e", "f", "g", "h", "i", "j", "k", "l", "m",
              "n", "o", "p", "q", "r", "s", "t", "u", "v", "w", "x", "y", "z",
              "A", "B", "C", "D", "E", "F", "G", "H", "I", "J", "K", "L", "M",
              "N", "O", "P", "Q", "R", "S", "T", "U", "V", "W", "X", "Y", "Z",
              "0", "1", "2", "3", "4", "5", "6", "7", "8", "9", "_"}

\* the first index >= i whose character is not in set (past the end when all
\* are): a greedy [set]* of a regular expression, and the left half of a strip
SkipWhile(s, i, set) ==
    IF \E j \in i..Len(s) : s[j] \notin set
    THEN CHOOSE j \in i..Len(s) :
             s[j] \notin set /\ \A k \in i..(j - 1) : s[k] \in set
    ELSE IF i > Len(s) THEN i ELSE Len(s) + 1

\* the last index <= j whose character is not in set (0 when all are)
SkipBack(s, j, set) ==
    IF \E i \in 1..j : s[i] \notin set
    THEN CHOOSE i \in 1..j :
             s[i] \notin set /\ \A k \in (i + 1)..j : s[k] \in set
    ELSE 0

\* str.strip(chars): every leading and trailing character of the set goes
StripChars(s, set) == Slice(s, SkipWhile(s, 1, set), SkipBack(s, Len(s), set))

\* str.strip()
Strip(s) == StripChars(s, Whitespace)

\* str.split(sep) for a one-character separator: every occurrence splits
RECURSIVE Split(_, _)
Split(s, sep) ==
    LET i == Find(s, 1, <<sep>>) IN
    IF i = 0 THEN <<s>>
    ELSE <<Slice(s, 1, i - 1)>> \o Split(Slice(s, i + 1, Len(s)), sep)

\* str.split(sep, 1): at the first occurrence only
SplitFirst(s, sep) ==
    LET i == Find(s, 1, <<sep>>) IN
    IF i = 0 THEN <<s>>
    ELSE <<Slice(s, 1, i - 1), Slice(s, i + 1, Len(s))>>

-----------------------------------------------------------------------------
(* Values: a Python str is <<"str", text>>, a number <<"num", lexeme>>,    *)
(* True/False/None <<"lit", lexeme>>, a list <<"arr", <<values>>>>, a dict *)
(* <<"obj", <<pairs>>>> with the pairs <<key, value>> in insertion order   *)
(* and no key twice.                                                       *)

RECURSIVE DictSet(_, _, _)
\* d[k] = v on the pairs of a dict: an existing key keeps its place
DictSet(pairs, k, v) ==
    IF pairs = <<>> THEN <<<<k, v>>>>
    ELSE IF Head(pairs)[1] = k THEN <<<<k, v>>>> \o Tail(pairs)
    ELSE <<Head(pairs)>> \o DictSet(Tail(pairs), k, v)

EmptyDict == <<"obj", <<>>>>

-----------------------------------------------------------------------------
(* json.loads, as the standard library's decoder scans: no backslash-u     *)
(* escapes, which no text of this model holds.                             *)

JsonWs == {" ", "\t", "\n", "\r"}
Digits == {"0", "1", "2", "3", "4", "5", "6", "7", "8", "9"}
\* characters below 0x20, which a strict JSON string may not hold
ControlChars == {"\t", "\n", "\r", "\f"}

ParseFail == [ok |-> FALSE, val |-> <<>>, pos |-> 0]
ParseOk(v, p) == [ok |-> TRUE, val |-> v, pos |-> p]

\* the character a simple escape stands for, "" for none
Unescape(c) ==
    CASE c = "\"" -> "\""
      [] c = "\\" -> "\\"
      [] c = "/" -> "/"
      [] c = "n" -> "\n"
      [] c = "r" -> "\r"
      [] c = "t" -> "\t"
      [] c = "f" -> "\f"
      [] OTHER -> ""

\* py_scanstring: i is the index after the opening quote
RECURSIVE ScanString(_, _, _)
ScanString(s, i, acc) ==
    LET c == At(s, i) IN
    IF c = "" THEN ParseFail
    ELSE IF c = "\"" THEN ParseOk(acc, i + 1)
    ELSE IF c = "\\" THEN
        IF Unescape(At(s, i + 1)) = "" THEN ParseFail
        ELSE ScanString(s, i + 2, Append(acc, Unescape(At(s, i + 1))))
    ELSE IF c \in ControlChars THEN ParseFail
    ELSE ScanString(s, i + 1, Append(acc, c))

\* NUMBER_RE = (-?(?:0|[1-9]\d*))(\.\d+)?([eE][-+]?\d+)? matched at i: the index
\* after the number, 0 when none starts at i
NumberExp(s, p) ==
    LET q == IF At(s, p + 1) \in {"+", "-"} THEN p + 2 ELSE p + 1 IN
    IF At(s, p) \in {"e", "E"} /\ At(s, q) \in Digits
    THEN SkipWhile(s, q + 1, Digits) ELSE p
NumberFrac(s, p) ==
    IF At(s, p) = "." /\ At(s, p + 1) \in Digits
    THEN NumberExp(s, SkipWhile(s, p + 2, Digits)) ELSE NumberExp(s, p)
NumberInt(s, p) ==
    IF At(s, p) = "0" THEN NumberFrac(s, p + 1)
    ELSE IF At(s, p) \in Digits THEN NumberFrac(s, SkipWhile(s, p + 1, Digits))
    ELSE 0
MatchNumber(s, i) == NumberInt(s, IF At(s, i) = "-" THEN i + 1 ELSE i)

RECURSIVE ScanOnce(_, _), ObjMembers(_, _, _), ArrElems(_, _, _)

\* JSONObject's loop: i is the index after the opening quote of a key
ObjMembers(s, i, pairs) ==
    LET k  == ScanString(s, i, <<>>)
        p1 == SkipWhile(s, k.pos, JsonWs)
        p2 == SkipWhile(s, p1 + 1, JsonWs)
        v  == ScanOnce(s, p2)
        p3 == SkipWhile(s, v.pos, JsonWs)
        p4 == SkipWhile(s, p3 + 1, JsonWs)
        \* dict(pairs): a repeated key takes the last value
        more == DictSet(pairs, k.val, v.val)
    IN
    IF ~k.ok \/ At(s, p1) # ":" THEN ParseFail
    ELSE IF ~v.ok THEN ParseFail
    ELSE IF At(s, p3) = "}" THEN ParseOk(<<"obj", more>>, p3 + 1)
    ELSE IF At(s, p3) = "," /\ At(s, p4) = "\"" THEN ObjMembers(s, p4 + 1, more)
    ELSE ParseFail

\* JSONArray's loop: i is the index of the next element
ArrElems(s, i, vals) ==
    LET v == ScanOnce(s, i)
        p == SkipWhile(s, v.pos, JsonWs)
    IN
    IF ~v.ok THEN ParseFail
    ELSE IF At(s, p) = "]" THEN ParseOk(<<"arr", Append(vals, v.val)>>, p + 1)
    ELSE IF At(s, p) = ","
         THEN ArrElems(s, SkipWhile(s, p + 1, JsonWs), Append(vals, v.val))
    ELSE ParseFail

\* scan_once: the value that starts exactly at i
ScanOnce(s, i) ==
    LET c == At(s, i)
        n == MatchNumber(s, i)
        p == SkipWhile(s, i + 1, JsonWs)
    IN
    IF c = "\"" THEN
        LET r == ScanString(s, i + 1, <<>>) IN
        IF r.ok THEN ParseOk(<<"str", r.val>>, r.pos) ELSE ParseFail
    ELSE IF c = "{" THEN
        IF At(s, p) = "}" THEN ParseOk(EmptyDict, p + 1)
        ELSE IF At(s, p) = "\"" THEN ObjMembers(s, p + 1, <<>>)
        ELSE ParseFail
    ELSE IF c = "[" THEN
        IF At(s, p) = "]" THEN ParseOk(<<"arr", <<>>>>, p + 1)
        ELSE ArrElems(s, p, <<>>)
    ELSE IF StartsAt(s, i, <<"n", "u", "l", "l">>) THEN ParseOk(<<"lit", <<"n", "u", "l", "l">>>>, i + 4)
    ELSE IF StartsAt(s, i, <<"t", "r", "u", "e">>) THEN ParseOk(<<"lit", <<"t", "r", "u", "e">>>>, i + 4)
    ELSE IF StartsAt(s, i, <<"f", "a", "l", "s", "e">>) THEN ParseOk(<<"lit", <<"f", "a", "l", "s", "e">>>>, i + 5)
    ELSE IF n # 0 THEN ParseOk(<<"num", Slice(s, i, n - 1)>>, n)
    ELSE IF StartsAt(s, i, <<"N", "a", "N">>) THEN ParseOk(<<"num", <<"N", "a", "N">>>>, i + 3)
    ELSE IF StartsAt(s, i, <<"I", "n", "f", "i", "n", "i", "t", "y">>) THEN ParseOk(<<"num", <<"I", "n", "f", "i", "n", "i", "t", "y">>>>, i + 8)
    ELSE IF StartsAt(s, i, <<"-", "I", "n", "f", "i", "n", "i", "t", "y">>) THEN ParseOk(<<"num", <<"-", "I", "n", "f", "i", "n", "i", "t", "y">>>>, i + 9)
    ELSE ParseFail

\* json.loads(s): [ok |-> TRUE, val |-> the value], or ok = FALSE where Python
\* raises json.JSONDecodeError (no value, or extra data after it)
json_loads(s) ==
    LET r == ScanOnce(s, SkipWhile(s, 1, JsonWs)) IN
    IF r.ok /\ SkipWhile(s, r.pos, JsonWs) = Len(s) + 1
    THEN [ok |-> TRUE, val |-> r.val]
    ELSE [ok |-> FALSE, val |-> <<>>]

-----------------------------------------------------------------------------
(* The two patterns.  A match is [ok, name, params | args]; search is the  *)
(* leftmost start at which the pattern matches.  Every quantifier of the   *)
(* patterns is followed by a character it cannot itself match, or is lazy  *)
(* before a literal, so a start admits at most one match.                  *)

NoMatch == [ok |-> FALSE, name |-> <<>>, group |-> <<>>]

\* _JSON_RE.match at i:
\*   \{"name"\s*:\s*"(?P<name>[^"]+)"\s*,\s*"parameters"\s*:\s*(?P<params>\{.*?\})\}
JSON_RE_at(s, i) ==
    LET a  == SkipWhile(s, i + 7, Whitespace)        \* \s* before :
        b  == SkipWhile(s, a + 1, Whitespace)        \* \s* before the name's quote
        c  == Find(s, b + 1, <<"\"">>)               \* the quote closing [^"]+
        d  == SkipWhile(s, c + 1, Whitespace)        \* \s* before ,
        e  == SkipWhile(s, d + 1, Whitespace)        \* \s* before "parameters"
        f  == SkipWhile(s, e + 12, Whitespace)       \* \s* before :
        g  == SkipWhile(s, f + 1, Whitespace)        \* \s* before \{
        \* .*? ends at the first } that another } follows
        h  == Find(s, g + 1, <<"}", "}">>)
    IN
    IF /\ StartsAt(s, i, <<"{", "\"", "n", "a", "m", "e", "\"">>)
       /\ At(s, a) = ":"
       /\ At(s, b) = "\""
       /\ c > b + 1
       /\ At(s, d) = ","
       /\ StartsAt(s, e, <<"\"", "p", "a", "r", "a", "m", "e", "t", "e", "r", "s", "\"">>)
       /\ At(s, f) = ":"
       /\ At(s, g) = "{"
       /\ h # 0
    THEN [ok |-> TRUE, name |-> Slice(s, b + 1, c - 1), group |-> Slice(s, g, h)]
    ELSE NoMatch

\* _JSON_RE.search(s): the match at the leftmost start that has one
JSON_RE_search(s) ==
    IF \E i \in 1..Len(s) : JSON_RE_at(s, i).ok
    THEN JSON_RE_at(s, CHOOSE i \in 1..Len(s) :
             JSON_RE_at(s, i).ok /\ \A k \in 1..(i - 1) : ~JSON_RE_at(s, k).ok)
    ELSE NoMatch

\* _PY_RE.match at i:   <\|python_tag\|>(?P<name>\w+)\.call\((?P<args>.*?)\)
PY_RE_at(s, i) ==
    LET a == i + Len(PYTHON_TAG)                     \* the name's first character
        b == SkipWhile(s, a, WordChars)              \* after \w+
        c == b + 6                                   \* after \.call\(
        d == Find(s, c, <<")">>)                     \* the ) ending .*?
    IN
    IF /\ StartsAt(s, i, PYTHON_TAG)
       /\ b > a
       /\ StartsAt(s, b, <<".", "c", "a", "l", "l", "(">>)
       /\ d # 0
    THEN [ok |-> TRUE, name |-> Slice(s, a, b - 1), group |-> Slice(s, c, d - 1)]
    ELSE NoMatch

\* _PY_RE.search(s): the match at the leftmost start that has one
PY_RE_search(s) ==
    IF \E i \in 1..Len(s) : PY_RE_at(s, i).ok
    THEN PY_RE_at(s, CHOOSE i \in 1..Len(s) :
             PY_RE_at(s, i).ok /\ \A k \in 1..(i - 1) : ~PY_RE_at(s, k).ok)
    ELSE NoMatch

-----------------------------------------------------------------------------
(* extract_tool_calls *)

\* what a call ends in: a returned object or a raised exception
Raised(exc) == [kind |-> "raise", exc |-> exc]
ToolCall(name, arguments) == [name |-> name, arguments |-> arguments]
\* content is <<>> for None and <<text>> for a str
ExtractedToolCallInformation(tools_called, tool_calls, content) ==
    [kind |-> "info", tools_called |-> tools_called,
     tool_calls |-> tool_calls, content |-> content]

\* v.strip().strip("\"'")
StripQuotes(v) == StripChars(Strip(v), {"\"", "'"})

\* the value of one k=v pair: JSON when it starts with { or [, else a str
ArgValue(v) ==
    IF At(Strip(v), 1) \in {"{", "["}
    THEN json_loads(Strip(v))
    ELSE [ok |-> TRUE, val |-> <<"str", StripQuotes(v)>>]

\* for pair in args_s.split(","): the pairs from index i on, into kwargs
RECURSIVE ParsePairs(_, _, _)
ParsePairs(pairs, i, kwargs) ==
    IF i > Len(pairs) THEN [kind |-> "ok", kwargs |-> kwargs]
    ELSE
        LET kv == SplitFirst(pairs[i], "=") IN
        \* k, v = pair.split("=", 1) with no "=" in the pair
        IF Len(kv) < 2 THEN Raised("ValueError")
        ELSE IF ~ArgValue(kv[2]).ok THEN Raised("JSONDecodeError")
        ELSE ParsePairs(pairs, i + 1,
                        DictSet(kwargs, Strip(kv[1]), ArgValue(kv[2]).val))

\* kwargs of the ipython form
ParseArgs(args_s) ==
    IF Strip(args_s) = <<>> THEN [kind |-> "ok", kwargs |-> <<>>]
    ELSE ParsePairs(Split(args_s, ","), 1, <<>>)

\* JsonBranch with the decode failure swallowed into an empty argument mapping
JsonBranchSwallow(m) ==
    ExtractedToolCallInformation(
        TRUE,
        <<ToolCall(m.name, IF json_loads(m.group).ok THEN json_loads(m.group).val
                           ELSE EmptyDict)>>,
        <<>>)

\* 1. the JSON form
JsonBranch(m) ==
    IF json_loads(m.group).ok
    THEN ExtractedToolCallInformation(
             TRUE, <<ToolCall(m.name, json_loads(m.group).val)>>, <<>>)
    ELSE Raised("JSONDecodeError")

\* 2. the ipython form
PyBranch(m) ==
    IF ParseArgs(m.group).kind = "ok"
    THEN ExtractedToolCallInformation(
             TRUE, <<ToolCall(m.name, <<"obj", ParseArgs(m.group).kwargs>>)>>, <<>>)
    ELSE ParseArgs(m.group)

\* PlainText with content=None, as in the tool-call return
PlainTextNone(model_output) ==
    ExtractedToolCallInformation(FALSE, <<>>, <<>>)

\* no tool call found: the whole output is assistant content
PlainText(model_output) ==
    ExtractedToolCallInformation(FALSE, <<>>, <<model_output>>)

\* extract_tool_calls with the two forms tried in the other order
extract_tool_calls_py_first(model_output) ==
    IF PY_RE_search(model_output).ok THEN PyBranch(PY_RE_search(model_output))
    ELSE IF JSON_RE_search(model_output).ok
         THEN JsonBranch(JSON_RE_search(model_output))
    ELSE PlainText(model_output)

extract_tool_calls(model_output) ==
    IF JSON_RE_search(model_output).ok THEN JsonBranch(JSON_RE_search(model_output))
    ELSE IF PY_RE_search(model_output).ok THEN PyBranch(PY_RE_search(model_output))
    ELSE PlainText(model_output)

-----------------------------------------------------------------------------
(* extract_tool_calls_streaming *)

None == [kind |-> "None"]
DeltaMessage(role, content, tool_calls) ==
    [kind |-> "DeltaMessage", role |-> role, content |-> content,
     tool_calls |-> tool_calls]

\* Closed with _PYTHON_TAG tested in the place of _EOM
ClosedWrongMarker(text) == Contains(text, EOT) \/ Contains(text, PYTHON_TAG)

\* the tool call is closed: a terminator is in the accumulated text
Closed(text) == Contains(text, EOT) \/ Contains(text, EOM)

\* extract_tool_calls_streaming that streams the text out as content when the
\* closed turn holds no tool call
extract_tool_calls_streaming_content(text) ==
    IF ~Closed(text) THEN None
    ELSE
        LET r == extract_tool_calls(text) IN
        IF r.kind = "raise" THEN r
        ELSE IF ~r.tools_called THEN DeltaMessage("assistant", r.content, <<>>)
        ELSE DeltaMessage("assistant", <<>>, r.tool_calls)

extract_tool_calls_streaming(text) ==
    IF ~Closed(text) THEN None
    ELSE
        LET r == extract_tool_calls(text) IN
        IF r.kind = "raise" THEN r
        ELSE IF ~r.tools_called THEN None
        ELSE DeltaMessage("assistant", <<>>, r.tool_calls)

\* adjust_request: special tokens must stay in the text
adjust_request(req) == [req EXCEPT !.skip_special_tokens = FALSE]

-----------------------------------------------------------------------------
(* The completions the model may emit: up to MaxChunks chunks, each a      *)
(* call in one of the two encodings (well-formed or not), a terminator or  *)
(* plain text.  A chunk is a sequence of tokens.                           *)

JsonCall(name, params) ==
    <<<<"{", "\"", "n", "a", "m", "e", "\"", ":", " ", "\"">> \o name \o <<"\"", ",", " ", "\"", "p", "a", "r", "a", "m", "e", "t", "e", "r", "s", "\"", ":", " ">>>> \o params \o <<<<"}">>>>
PyCall(name, args) ==
    <<PYTHON_TAG, name \o <<".", "c", "a", "l", "l", "(">>>> \o args \o <<<<")">>>>

\* parameter objects that are valid JSON, with the value each denotes
WellFormedParams == {
    [toks |-> <<<<"{", "}">>>>, value |-> EmptyDict],
    [toks |-> <<<<"{", "\"", "c", "i", "t", "y", "\"", ":", " ", "\"", "B", "o", "s", "t", "o", "n", "\"", "}">>>>,
     value |-> <<"obj", << <<<<"c", "i", "t", "y">>, <<"str", <<"B", "o", "s", "t", "o", "n">>>>>> >>>>],
    [toks |-> <<<<"{", "\"", "a", "\"", ":", " ", "{", "\"", "b", "\"", ":", " ", "1", "}", ",", " ", "\"", "c", "\"", ":", " ", "[", "2", "]", "}">>>>,
     value |-> <<"obj", << <<<<"a">>, <<"obj", << <<<<"b">>, <<"num", <<"1">>>>>> >>>>>>,
                           <<<<"c">>, <<"arr", << <<"num", <<"2">>>> >>>>>> >>>>],
    [toks |-> <<<<"{", "\"", "a", "\"", ":", " ", "{", "\"", "b", "\"", ":", " ", "1", "}", "}">>>>,
     value |-> <<"obj", << <<<<"a">>, <<"obj", << <<<<"b">>, <<"num", <<"1">>>>>> >>>>>> >>>>],
    [toks |-> <<<<"{", "\"", "a", "\"", ":", " ", "\"", "}", "}", "\"", "}">>>>,
     value |-> <<"obj", << <<<<"a">>, <<"str", <<"}", "}">>>>>> >>>>],
    [toks |-> <<<<"{", "\"", "a", "\"", ":", " ", "\"">>, EOT, <<"\"", "}">>>>,
     value |-> <<"obj", << <<<<"a">>, <<"str", EOT>>>> >>>>] }

\* parameter text the pattern captures and json.loads rejects
MalformedParams == { <<<<"{", "b", "a", "d", " ", "j", "s", "o", "n", "}">>>> }

\* argument lists of the call syntax that split into well-formed pairs
SimpleArgs == {
    [toks |-> <<>>, value |-> EmptyDict],
    [toks |-> <<<<"a", "=", "\"", "x", "\"", ",">>, <<" ", "b", " ", "=", " ", "5", " ">>>>,
     value |-> <<"obj", << <<<<"a">>, <<"str", <<"x">>>>>>,
                           <<<<"b">>, <<"str", <<"5">>>>>> >>>>],
    [toks |-> <<<<"a", "=", "{", "\"", "b", "\"", ":", " ", "1", "}">>>>,
     value |-> <<"obj", << <<<<"a">>, <<"obj", << <<<<"b">>, <<"num", <<"1">>>>>> >>>>>> >>>>] }

\* the argument list of round-trip example 2, and its stated arguments
Example2Args ==
    [toks |-> <<<<"q", "u", "e", "r", "y", "=", "\"", "r", "u", "s", "t", " ", "o", "w", "n", "e", "r", "s", "h", "i", "p", "\"", ",">>, <<" ", "l", "i", "m", "i", "t", "=", "5", ",">>, <<" ", "t", "a", "g", "s", "=", "[", "\"", "l", "a", "n", "g", "\"", ",", "\"", "s", "a", "f", "e", "t", "y", "\"", "]">>>>,
     value |-> <<"obj", << <<<<"q", "u", "e", "r", "y">>, <<"str", <<"r", "u", "s", "t", " ", "o", "w", "n", "e", "r", "s", "h", "i", "p">>>>>>,
                           <<<<"l", "i", "m", "i", "t">>, <<"str", <<"5">>>>>>,
                           <<<<"t", "a", "g", "s">>, <<"arr", << <<"str", <<"l", "a", "n", "g">>>>,
                                                   <<"str", <<"s", "a", "f", "e", "t", "y">>>> >>>>>> >>>>]

\* value-texts that start with neither { nor [, whose quotes do not pair up
QuotedValues == { <<"\"", "x">>, <<"'", "x", "\"">>, <<"\"", "\"", "x", "\"", "\"">> }

\* an argument with no "="
BareArg == <<<<"a">>>>

Terminators == { <<EOT>>, <<EOM>> }
Plain == { <<<<"S", "u", "r", "e", ".">>>>, <<<<"{", "\"", "n", "a", "m", "e", "\"", ":", " ", "\"", "\"", ",", " ", "\"", "p", "a", "r", "a", "m", "e", "t", "e", "r", "s", "\"", ":", " ", "{", "}", "}">>>> }

StructuredChunks ==
    {JsonCall(<<"x">>, p.toks) : p \in WellFormedParams}
        \cup {JsonCall(<<"x">>, p) : p \in MalformedParams}
CallSyntaxChunks ==
    {PyCall(<<"f">>, a.toks) : a \in SimpleArgs}
        \cup {PyCall(<<"s", "e", "a", "r", "c", "h">>, Example2Args.toks)}
        \cup {PyCall(<<"f">>, <<<<"a", "=">> \o v>>) : v \in QuotedValues}
        \cup {PyCall(<<"f">>, BareArg)}

\* a whole turn in one chunk: a call of either encoding and its terminator
Turns == { JsonCall(<<"x">>, <<<<"{", "}">>>>) \o <<EOT>>,
           PyCall(<<"f">>, <<<<"a", "=", "\"", "x", "\"">>>>) \o <<EOM>> }

Chunks ==
    StructuredChunks \cup CallSyntaxChunks \cup Terminators \cup Plain \cup Turns

Completions ==
    {Flatten(cs) : cs \in UNION {[1..n -> Chunks] : n \in 0..MaxChunks}}

-----------------------------------------------------------------------------
(* The parser in a serving loop: the request is adjusted first; the turn   *)
(* is then either parsed whole, or streamed delta by delta.                *)

Unset == [kind |-> "unset"]

Init ==
    /\ completion \in Completions
    /\ fed = 0
    /\ current_text = <<>>
    /\ delta = None
    /\ emitted = 0
    /\ info = Unset
    /\ request = [skip_special_tokens |-> TRUE]

AdjustRequest ==
    /\ request.skip_special_tokens
    /\ request' = adjust_request(request)
    /\ UNCHANGED <<completion, fed, current_text, delta, emitted, info>>

\* non-streaming: the entire completion is ready
Extract ==
    /\ ~request.skip_special_tokens
    /\ fed = 0
    /\ info = Unset
    /\ info' = extract_tool_calls(Flatten(completion))
    /\ UNCHANGED <<completion, fed, current_text, delta, emitted, request>>

\* streaming: the next k tokens arrive and the parser sees the accumulated text
Stream(k) ==
    /\ ~request.skip_special_tokens
    /\ info = Unset
    /\ fed + k <= Len(completion)
    /\ fed' = fed + k
    /\ current_text' = current_text \o Flatten(SubSeq(completion, fed + 1, fed + k))
    /\ delta' = extract_tool_calls_streaming(current_text')
    /\ emitted' = IF delta'.kind = "DeltaMessage" THEN emitted + 1 ELSE emitted
    /\ UNCHANGED <<completion, info, request>>

Next ==
    \/ AdjustRequest
    \/ Extract
    \/ \E k \in 1..MaxDelta : Stream(k)

Spec == Init /\ [][Next]_vars

-----------------------------------------------------------------------------
(* Properties *)

\* the whole completion as one text
Text == Flatten(completion)

\* the starts at which each pattern matches
JsonStarts(s) == {i \in 1..Len(s) : JSON_RE_at(s, i).ok}
PyStarts(s) == {i \in 1..Len(s) : PY_RE_at(s, i).ok}
Min(S) == CHOOSE i \in S : \A j \in S : i <= j

\* text around a call that holds no call itself
Affixes == {<<>>, <<<<"S", "u", "r", "e", ".">>>>} \cup Terminators

\* the result that carries exactly the call name(arguments)
Invocation(name, arguments) ==
    ExtractedToolCallInformation(TRUE, <<ToolCall(name, arguments)>>, <<>>)

\* complete valid encoded turns: a well-formed call of either encoding that
\* ends with its terminator
ValidTurns ==
    {JsonCall(<<"x">>, p.toks) \o <<EOT>> : p \in WellFormedParams}
        \cup {PyCall(<<"f">>, a.toks) \o <<EOM>> : a \in SimpleArgs}

\* C1: when a complete valid encoded turn has been streamed to its end, in
\* whatever deltas, exactly one streaming call has returned a message, and no
\* call returns one while the accumulated text holds no terminator.
C1_ExactlyOneResult ==
    /\ (completion \in ValidTurns /\ fed = Len(completion)) => emitted = 1
    /\ (completion \in ValidTurns /\ delta.kind = "DeltaMessage")
           => (Contains(current_text, EOT) \/ Contains(current_text, EOM))

\* C2: once a streaming call of the turn has returned an invocation, no later
\* streaming call of that turn returns a second one.
C2_NoSecondInvocation == emitted <= 1

\* C3: a text that holds one well-formed {"name": ..., "parameters": {...}}
\* object, nested objects and braces inside strings included, is extracted to
\* tools_called = TRUE and the one invocation with that name and exactly those
\* parameters.
C3_StructuredExact ==
    \A p \in WellFormedParams : \A pre \in Affixes : \A post \in Affixes :
        (info.kind # "unset" /\ completion = pre \o JsonCall(<<"x">>, p.toks) \o post)
            => info = Invocation(<<"x">>, p.value)

\* C4: <|python_tag|>search.call(query="rust ownership", limit=5,
\* tags=["lang","safety"])<|eom_id|> is extracted to the call search with
\* arguments {query: "rust ownership", limit: "5", tags: ["lang", "safety"]}.
C4_Example2 ==
    (info.kind # "unset"
        /\ completion = PyCall(<<"s", "e", "a", "r", "c", "h">>, Example2Args.toks) \o <<EOM>>)
        => info = Invocation(<<"s", "e", "a", "r", "c", "h">>, Example2Args.value)

\* C5: when the text matches the structured pattern and the captured parameter
\* text is not valid JSON, extract_tool_calls raises the decode error: it
\* returns neither an invocation nor plain text.
C5_MalformedRaises ==
    (/\ info.kind # "unset"
     /\ JsonStarts(Text) # {}
     /\ ~json_loads(JSON_RE_at(Text, Min(JsonStarts(Text))).group).ok)
        => info = Raised("JSONDecodeError")

\* the malformed example of the specification has been extracted
C5_Witness ==
    /\ completion = JsonCall(<<"x">>, <<<<"{", "b", "a", "d", " ", "j", "s", "o", "n", "}">>>>) \o <<EOT>>
    /\ info = Raised("JSONDecodeError")

\* C6: when neither pattern matches anywhere in the text, extract_tool_calls
\* returns tools_called = FALSE, no tool calls, and the whole text as content.
C6_PlainText ==
    (info.kind # "unset" /\ JsonStarts(Text) = {} /\ PyStarts(Text) = {})
        => info = ExtractedToolCallInformation(FALSE, <<>>, <<Text>>)

\* a text with a terminator and a near miss of the structured pattern (an
\* empty name) came back whole
C6_Witness ==
    /\ info.kind = "info"
    /\ ~info.tools_called
    /\ Contains(Text, <<"{", "\"", "n", "a", "m", "e", "\"", ":", " ", "\"", "\"", ",", " ">>)
    /\ Contains(Text, EOT)
    /\ info.content = <<Text>>

\* C7: a streaming call whose accumulated text holds neither <|eot_id|> nor
\* <|eom_id|> returns None, whatever else the text holds.
C7_PendingSilent ==
    (fed > 0 /\ ~Contains(current_text, EOT) /\ ~Contains(current_text, EOM))
        => delta = None

\* a complete structural match is in the text, no terminator is, and the
\* streaming call returned None
C7_Witness ==
    /\ fed > 0
    /\ ~Contains(current_text, EOT) /\ ~Contains(current_text, EOM)
    /\ JsonStarts(current_text) # {} \/ PyStarts(current_text) # {}
    /\ delta = None

\* C8: a streaming call whose accumulated text holds a terminator and whose
\* extraction is plain text returns None, and raises nothing.
C8_ClosedNoMatch ==
    (/\ fed > 0
     /\ Contains(current_text, EOT) \/ Contains(current_text, EOM)
     /\ extract_tool_calls(current_text) = PlainText(current_text))
        => delta = None

\* a terminator has arrived after plain text that holds no call
C8_Witness ==
    /\ fed > 1
    /\ Contains(current_text, EOM)
    /\ JsonStarts(current_text) = {} /\ PyStarts(current_text) = {}
    /\ delta = None

\* C9: extract_tool_calls returns at most one invocation; when the structured
\* pattern matches anywhere, the outcome is that of its leftmost match, also
\* when a call-syntax match starts earlier; otherwise, when the call-syntax
\* pattern matches, the outcome is that of its leftmost match.
C9_Precedence ==
    info.kind # "unset" =>
        /\ info.kind = "info" => Len(info.tool_calls) <= 1
        /\ JsonStarts(Text) # {}
               => info = JsonBranch(JSON_RE_at(Text, Min(JsonStarts(Text))))
        /\ (JsonStarts(Text) = {} /\ PyStarts(Text) # {})
               => info = PyBranch(PY_RE_at(Text, Min(PyStarts(Text))))

\* a call-syntax match starts before the first structured match, and the
\* invocation is the structured one
C9_Witness ==
    /\ info.kind = "info"
    /\ JsonStarts(Text) # {} /\ PyStarts(Text) # {}
    /\ Min(PyStarts(Text)) < Min(JsonStarts(Text))
    /\ info.tools_called
    /\ info.tool_calls[1].name = <<"x">>

\* one layer of surrounding quotes off, when both ends carry the same quote
Unquote1(v) ==
    IF Len(v) >= 2 /\ v[1] = v[Len(v)] /\ v[1] \in {"\"", "'"}
    THEN Slice(v, 2, Len(v) - 1) ELSE v

\* C10: a call-syntax value that starts with neither { nor [ decodes to its
\* text with one layer of matching surrounding quotes removed, and to its text
\* unchanged when the two ends do not carry the same quote.
C10_OneLayerUnquote ==
    \A v \in QuotedValues :
        (info.kind # "unset"
            /\ completion = PyCall(<<"f">>, <<<<"a", "=">> \o v>>) \o <<EOM>>)
            => info = Invocation(<<"f">>, <<"obj", << <<<<"a">>, <<"str", Unquote1(v)>>>> >>>>)

====
